---- MODULE Spec2Model ----
(***************************************************************************)
(* SDNV (RFC 5050, section 4.1) codec of package sdnv: the fixed-buffer    *)
(* codec Encode/Decode, the math/big codec encodeBig/decodeBig, the stream *)
(* writers Write/WriteBytes and the stream readers Read/ReadBytes.         *)
(*                                                                         *)
(* Numbers.  TLC's integers are 32 bits wide, so a uint64 and a big.Int    *)
(* are both modelled as a natural number written as its sequence of bits,  *)
(* least significant bit first, with no leading (trailing in the sequence) *)
(* zero: <<>> is 0, <<1>> is 1, <<0,1>> is 2.  A uint64 is such a sequence *)
(* of at most WordBits bits; the uint64 operations cut their result to     *)
(* WordBits bits, which is Go's wrap-around.  A byte is an integer 0..255. *)
(***************************************************************************)
EXTENDS Integers, Sequences, FiniteSets, TLC

VARIABLES
    x,        \* codec: the value handed to Encode / encodeBig
    buf0,     \* codec: the caller's buffer before the encoding call
    buf,      \* codec: the caller's buffer after the encoding call
    enc,      \* codec: what the encoding call returned
    dec,      \* codec: what the decoding call returned
    stream,   \* streams: the bytes of the bytes.Buffer not read yet
    data,     \* streams: the caller's out-variable (*data)
    ret,      \* streams: what the last streaming call returned
    records,  \* streams: the records written so far, in order (history)
    reads     \* streams: how many of them the read calls have gone through

codecVars == <<x, buf0, buf, enc, dec>>
streamVars == <<stream, data, ret, records, reads>>
vars == <<x, buf0, buf, enc, dec, stream, data, ret, records, reads>>

----------------------------------------------------------------------------
(* Program constants *)

MaxByteSize == 10
WordBits == 64

(* Bounds of the model *)

MaxBigGroups == 24   \* widest big.Int, in 7-bit groups
MaxBufLen == 11      \* longest buffer handed to Encode
MaxRecords == 2      \* records written to one stream
MaxMid == 11         \* bytes between the first and the last byte of a raw source

----------------------------------------------------------------------------
(* Natural numbers as bit sequences *)

Pow2(k) == 2 ^ k

RECURSIVE Norm(_)
Norm(s) ==
    IF s = <<>> THEN <<>>
    ELSE IF s[Len(s)] = 1 THEN s
    ELSE Norm(SubSeq(s, 1, Len(s) - 1))

BitOf(v, i) == IF i <= Len(v) THEN v[i] ELSE 0

RECURSIVE BitsValue(_, _, _)
\* the integer held by bits lo..hi of v (hi - lo < 31)
BitsValue(v, lo, hi) ==
    IF hi < lo THEN 0
    ELSE BitOf(v, lo) + 2 * BitsValue(v, lo + 1, hi)

\* the bit sequence of a small integer
FromInt(k) == Norm([i \in 1..31 |-> (k \div Pow2(i - 1)) % 2])

Zeros(k) == [i \in 1..k |-> 0]

\* uint64(v): the low WordBits bits
Trunc64(v) == IF Len(v) <= WordBits THEN v ELSE Norm(SubSeq(v, 1, WordBits))

\* bits.Len64(v) and (*big.Int).BitLen()
BitLen(v) == Len(v)

\* v >> k
Rsh(v, k) == IF Len(v) <= k THEN <<>> ELSE SubSeq(v, k + 1, Len(v))

\* v << k, unbounded ((*big.Int).Lsh)
Lsh(v, k) == IF v = <<>> THEN <<>> ELSE Zeros(k) \o v

\* a whole-byte shift where a 7-bit shift is meant
Lsh64Byte(v, k) == Trunc64(Lsh(v, k + 1))

\* v << k on a uint64
Lsh64(v, k) == Trunc64(Lsh(v, k))

\* v | g for a 7-bit g ((*big.Int).Or with a small operand, and |= uint64(b & 0x7f))
Or7(v, g) ==
    Norm([i \in 1..(IF Len(v) > 7 THEN Len(v) ELSE 7) |->
            IF i <= 7 /\ (g \div Pow2(i - 1)) % 2 = 1 THEN 1 ELSE BitOf(v, i)])

\* byte(v) & 0x7f
Low7(v) == BitsValue(v, 1, 7)

\* byte(v >> offset) & 0x7f
Group7(v, offset) == BitsValue(v, offset + 1, offset + 7)

----------------------------------------------------------------------------
(* Fixed-buffer codec: Encode, Decode *)

\* the outcome of an encoding call: the count returned, the buffer as the call
\* left it, and whether the call panicked (index out of range)
EncOut(n, b, p) == [n |-> n, buf |-> b, panic |-> p]

\* the outcome of a decoding call
DecOut(v, n, p) == [val |-> v, n |-> n, panic |-> p]

RECURSIVE EncodeLoop(_, _, _, _)
\* for i := n; i >= 0; i-- { buf[i] = byte(x) & 0x7f; if i != n {..|= 0x80}; x >>= 7 }
EncodeLoop(b, v, i, n) ==
    IF i < 0 THEN EncOut(n + 1, b, FALSE)
    ELSE IF i >= Len(b) THEN EncOut(0, b, TRUE)
    ELSE EncodeLoop([b EXCEPT ![i + 1] = Low7(v) + (IF i # n THEN 128 ELSE 0)],
                    Rsh(v, 7), i - 1, n)

\* Encode with the group count taken as Len64(x)/7
EncodeLongCount(b, v) ==
    IF v = <<>>
    THEN IF Len(b) = 0 THEN EncOut(0, b, TRUE)
         ELSE EncOut(1, [b EXCEPT ![1] = 0], FALSE)
    ELSE LET n == BitLen(v) \div 7
         IN  EncodeLoop(b, v, n, n)

RECURSIVE EncodeLoopUp(_, _, _, _)
EncodeLoopUp(b, v, i, n) ==
    IF i > n THEN EncOut(n + 1, b, FALSE)
    ELSE IF i >= Len(b) THEN EncOut(0, b, TRUE)
    ELSE EncodeLoopUp(
            [b EXCEPT ![i + 1] = Group7(v, 7 * (n - i)) + (IF i # n THEN 128 ELSE 0)],
            v, i + 1, n)

\* Encode filling the buffer from index 0 upwards, as WriteBytes emits its bytes
EncodeUpwards(b, v) ==
    IF v = <<>>
    THEN IF Len(b) = 0 THEN EncOut(0, b, TRUE)
         ELSE EncOut(1, [b EXCEPT ![1] = 0], FALSE)
    ELSE LET n == (BitLen(v) - 1) \div 7
         IN  EncodeLoopUp(b, v, 0, n)

Encode(b, v) ==
    IF v = <<>>
    THEN IF Len(b) = 0 THEN EncOut(0, b, TRUE)
         ELSE EncOut(1, [b EXCEPT ![1] = 0], FALSE)
    ELSE LET n == (BitLen(v) - 1) \div 7
         IN  EncodeLoop(b, v, n, n)

RECURSIVE DecodeLoop(_, _, _)
\* for { x |= uint64(buf[n] & 0x7f); if buf[n] < 0x80 {return x, n+1}; x <<= 7; n++ }
DecodeLoop(b, v, n) ==
    IF n >= Len(b) THEN DecOut(v, n, TRUE)
    ELSE LET v1 == Or7(v, b[n + 1] % 128)
         IN  IF b[n + 1] < 128 THEN DecOut(v1, n + 1, FALSE)
             ELSE DecodeLoop(b, Lsh64(v1, 7), n + 1)

Decode(b) == DecodeLoop(b, <<>>, 0)

----------------------------------------------------------------------------
(* Arbitrary-precision codec: encodeBig, decodeBig *)

RECURSIVE encodeBigLoop(_, _, _, _)
\* raw[len(raw)-1] is the low byte of x; raw is empty when x is 0
encodeBigLoop(b, v, i, n) ==
    IF i < 0 THEN EncOut(n + 1, b, FALSE)
    ELSE IF i >= Len(b) \/ v = <<>> THEN EncOut(0, b, TRUE)
    ELSE encodeBigLoop(
            [b EXCEPT ![i + 1] = (BitsValue(v, 1, 8) % 128) + (IF i # n THEN 128 ELSE 0)],
            Rsh(v, 7), i - 1, n)

\* encodeBig with the continuation flag put on the last byte too
encodeBigAllFlagged(b, v) ==
    LET bLen == BitLen(v)
    IN  IF bLen = 0
        THEN IF Len(b) = 0 THEN EncOut(0, b, TRUE)
             ELSE EncOut(1, [b EXCEPT ![1] = 0], FALSE)
        ELSE LET n == (bLen - 1) \div 7
                 r == encodeBigLoop(b, v, n, n)
             IN  IF r.panic THEN r
                 ELSE EncOut(r.n, [r.buf EXCEPT ![n + 1] = (r.buf[n + 1] % 128) + 128], FALSE)

encodeBig(b, v) ==
    LET bLen == BitLen(v)
    IN  IF bLen = 0
        THEN IF Len(b) = 0 THEN EncOut(0, b, TRUE)
             ELSE EncOut(1, [b EXCEPT ![1] = 0], FALSE)
        ELSE LET n == (bLen - 1) \div 7
             IN  encodeBigLoop(b, v, n, n)

RECURSIVE decodeBigLoop(_, _, _)
decodeBigLoop(b, v, n) ==
    IF n >= Len(b) THEN DecOut(v, n, TRUE)
    ELSE LET v1 == Or7(v, b[n + 1] % 128)
         IN  IF b[n + 1] < 128 THEN DecOut(v1, n + 1, FALSE)
             ELSE decodeBigLoop(b, Lsh(v1, 7), n + 1)

\* decodeBig accumulating in a uint64
decodeBigInWord(b) == DecodeLoop(b, <<>>, 0)

decodeBig(b) == decodeBigLoop(b, <<>>, 0)

----------------------------------------------------------------------------
(* Inputs *)

Patterns == {"zeros", "ones", "alt", "hept"}

PatternBit(p, i) ==
    CASE p = "zeros" -> 0
      [] p = "ones"  -> 1
      [] p = "alt"   -> i % 2
      [] OTHER       -> IF i % 7 = 1 THEN 1 ELSE 0

\* the value of bit length len whose bits below the top one follow pattern p
ValueOf(len, p) == [i \in 1..len |-> IF i = len THEN 1 ELSE PatternBit(p, i)]

\* the numbers of the test table (codec_test.go): 0xabc, 0x1234, 0x4234, 0x7f
TestNums == {FromInt(2748), FromInt(4660), FromInt(16948), FromInt(127)}

MaxBits == 7 * MaxBigGroups

\* every bit length of a uint64, under every pattern, and the test table
Values64 == {ValueOf(len, p) : len \in 0..WordBits, p \in Patterns} \cup TestNums

\* wider values: the bit lengths at both ends and in the middle of each group
BigLens == {len \in (WordBits + 1)..MaxBits : len % 7 \in {0, 1, 4}}

BigValues == {ValueOf(len, p) : len \in BigLens, p \in {"ones", "hept"}}

Values == Values64 \cup BigValues

FillBytes == {0, 255}

Buffer(len, fill) == [i \in 1..len |-> fill]

NoCall == [op |-> "none", n |-> 0, val |-> <<>>, panic |-> FALSE]

----------------------------------------------------------------------------
(* The codec as a state machine: one encoding call on a fresh input, then   *)
(* one decoding call on what it wrote.                                      *)

NoRet == [op |-> "none", n |-> 0, err |-> "nil", val |-> <<>>, d0 |-> <<>>,
          before |-> <<>>, exp |-> <<>>, sinkErrs |-> 0]

StreamIdle ==
    /\ stream = <<>>
    /\ data = <<>>
    /\ ret = NoRet
    /\ records = <<>>
    /\ reads = 0

CodecIdle ==
    /\ x = <<>>
    /\ buf0 = <<>>
    /\ buf = <<>>
    /\ enc = NoCall
    /\ dec = NoCall

InitCodec ==
    /\ x \in Values
    /\ buf0 = <<>>
    /\ buf = <<>>
    /\ enc = NoCall
    /\ dec = NoCall
    /\ StreamIdle

\* size := Encode(buf, x)
CallEncode ==
    /\ enc.op = "none"
    /\ BitLen(x) <= WordBits
    /\ \E len \in 0..MaxBufLen, fill \in FillBytes :
          \E r \in {Encode(Buffer(len, fill), x)} :
              /\ buf0' = Buffer(len, fill)
              /\ buf' = r.buf
              /\ enc' = [NoCall EXCEPT !.op = "Encode", !.n = r.n, !.panic = r.panic]
    /\ UNCHANGED <<x, dec, streamVars>>

\* size := encodeBig(buf, x)
CallEncodeBig ==
    /\ enc.op = "none"
    /\ \E len \in 0..(MaxBigGroups + 1), fill \in FillBytes :
          \E r \in {encodeBig(Buffer(len, fill), x)} :
              /\ buf0' = Buffer(len, fill)
              /\ buf' = r.buf
              /\ enc' = [NoCall EXCEPT !.op = "encodeBig", !.n = r.n, !.panic = r.panic]
    /\ UNCHANGED <<x, dec, streamVars>>

\* r, n := Decode(buf[:size])
CallDecode ==
    /\ enc.op # "none" /\ ~enc.panic
    /\ dec.op = "none"
    /\ \E r \in {Decode(SubSeq(buf, 1, enc.n))} :
          dec' = [op |-> "Decode", n |-> r.n, val |-> r.val, panic |-> r.panic]
    /\ UNCHANGED <<x, buf0, buf, enc, streamVars>>

\* x, n := decodeBig(buf[:size])
CallDecodeBig ==
    /\ enc.op # "none" /\ ~enc.panic
    /\ dec.op = "none"
    /\ \E r \in {decodeBig(SubSeq(buf, 1, enc.n))} :
          dec' = [op |-> "decodeBig", n |-> r.n, val |-> r.val, panic |-> r.panic]
    /\ UNCHANGED <<x, buf0, buf, enc, streamVars>>

NextCodec == CallEncode \/ CallEncodeBig \/ CallDecode \/ CallDecodeBig

SpecCodec == InitCodec /\ [][NextCodec]_vars

----------------------------------------------------------------------------
(* Stream writers: Write, WriteBytes.  The sink is a bytes.Buffer; a sink    *)
(* that raises errors does so on the calls numbered plan.from..plan.to of    *)
(* one writer call.                                                          *)

NoFail == [from |-> 1, to |-> 0]

SinkFails(plan, k) == plan.from <= k /\ k <= plan.to

WrOut(s, n, err, errs) == [stream |-> s, n |-> n, err |-> err, sinkErrs |-> errs]

\* w.Write(p): all of p and a nil error, or fewer bytes than len(p) and an error
SinkWrite(s, p, fails, short) ==
    IF fails
    THEN LET k == IF short < Len(p) THEN short ELSE Len(p) - 1
         IN  WrOut(s \o SubSeq(p, 1, k), k, "sink", 1)
    ELSE WrOut(s \o p, Len(p), "nil", 0)

\* bw.WriteByte(b)
SinkWriteByte(s, b, fails) ==
    IF fails THEN WrOut(s, 0, "sink", 1) ELSE WrOut(Append(s, b), 1, "nil", 0)

Write(s, v, plan, short) ==
    IF v = <<>>
    THEN SinkWrite(s, <<0>>, SinkFails(plan, 1), short)
    ELSE LET e == Encode(Buffer(MaxByteSize, 0), v)
         IN  SinkWrite(s, SubSeq(e.buf, 1, e.n), SinkFails(plan, 1), short)

RECURSIVE WriteBytesLoop(_, _, _, _, _, _)
\* for i := n; i >= 0; i-- { b := byte(x>>(i*7)) & 0x7f; if i != 0 {b |= 0x80}; bw.WriteByte(b) }
WriteBytesLoop(s, v, i, n, plan, errs) ==
    IF i < 0 THEN WrOut(s, n + 1, "nil", errs)
    ELSE LET b == Group7(v, i * 7) + (IF i # 0 THEN 128 ELSE 0)
             w == SinkWriteByte(s, b, SinkFails(plan, n - i + 1))
         IN  WriteBytesLoop(w.stream, v, i - 1, n, plan, errs + w.sinkErrs)

WriteBytes(s, v, plan) ==
    IF v = <<>>
    THEN LET w == SinkWriteByte(s, 0, SinkFails(plan, 1))
         IN  WrOut(w.stream, 1, w.err, w.sinkErrs)
    ELSE LET n == (BitLen(v) - 1) \div 7
         IN  WriteBytesLoop(s, v, n, n, plan, 0)

----------------------------------------------------------------------------
(* Stream readers: Read, ReadBytes.  The source is a bytes.Buffer: a read    *)
(* of one byte returns the next byte, or io.EOF and no byte when empty.      *)

RdOut(n, err, d, rest) == [n |-> n, err |-> err, data |-> d, rest |-> rest]

RECURSIVE ReadLoop(_, _, _, _)
ReadLoop(src, d, n, b0) ==
    IF src = <<>>
    THEN \* l = 0, err = io.EOF
         IF n > 0 THEN RdOut(n, "UnexpectedEOF", d, src) ELSE RdOut(n, "EOF", d, src)
    ELSE LET b  == Head(src)
             n1 == n + 1
             d1 == Or7(d, b % 128)
         IN  IF n1 = MaxByteSize /\ b >= 128
                 THEN RdOut(MaxByteSize, "Overflow64", d, Tail(src))
             ELSE IF n1 = MaxByteSize /\ b0 # 129
                 THEN RdOut(MaxByteSize, "Overflow64", d, Tail(src))
             ELSE IF b < 128 THEN RdOut(n1, "nil", d1, Tail(src))
             ELSE ReadLoop(Tail(src), Lsh64(d1, 7), n1, IF n1 = 1 THEN b ELSE b0)

RECURSIVE ReadLoopNoFirst(_, _, _, _)
ReadLoopNoFirst(src, d, n, b0) ==
    IF src = <<>>
    THEN IF n > 0 THEN RdOut(n, "UnexpectedEOF", d, src) ELSE RdOut(n, "EOF", d, src)
    ELSE LET b  == Head(src)
             n1 == n + 1
             d1 == Or7(d, b % 128)
         IN  IF n1 = MaxByteSize /\ b >= 128
                 THEN RdOut(MaxByteSize, "Overflow64", d, Tail(src))
             ELSE IF n1 = MaxByteSize /\ b0 # 129
                 THEN RdOut(MaxByteSize, "Overflow64", d, Tail(src))
             ELSE IF b < 128 THEN RdOut(n1, "nil", d1, Tail(src))
             ELSE ReadLoopNoFirst(Tail(src), Lsh64(d1, 7), n1, b0)

\* Read that never records the first byte in b0
ReadNoFirst(src, d0) == ReadLoopNoFirst(src, d0, 0, 0)

RECURSIVE ReadPlainLoop(_, _, _)
ReadPlainLoop(src, d, n) ==
    IF src = <<>> THEN RdOut(n, "EOF", d, src)
    ELSE LET b  == Head(src)
             d1 == Or7(d, b % 128)
         IN  IF b < 128 THEN RdOut(n + 1, "nil", d1, Tail(src))
             ELSE ReadPlainLoop(Tail(src), Lsh64(d1, 7), n + 1)

\* Read and ReadBytes with neither the truncation nor the overflow check
ReadPlain(src, d0) == ReadPlainLoop(src, d0, 0)
ReadBytesPlain(src, d0) == ReadPlainLoop(src, d0, 0)

\* Read refusing every multi-byte encoding led by a zero group (0x80)
ReadStrict(src, d0) ==
    LET r == ReadLoop(src, d0, 0, 0)
    IN  IF r.err = "nil" /\ r.n >= 2 /\ src[1] = 128
        THEN RdOut(r.n, "Overflow64", r.data, r.rest)
        ELSE r

Read(src, d0) == ReadLoop(src, d0, 0, 0)

RECURSIVE ReadBytesLoop(_, _, _, _)
ReadBytesLoop(src, d, n, b0) ==
    IF src = <<>>
    THEN IF n > 0 THEN RdOut(n, "UnexpectedEOF", d, src) ELSE RdOut(n, "EOF", d, src)
    ELSE LET b  == Head(src)
             d1 == Or7(d, b % 128)
         IN  IF n = MaxByteSize - 1 /\ b >= 128
                 THEN RdOut(MaxByteSize, "Overflow64", d, Tail(src))
             ELSE IF n = MaxByteSize - 1 /\ b0 # 129
                 THEN RdOut(MaxByteSize, "Overflow64", d, Tail(src))
             ELSE IF b < 128 THEN RdOut(n + 1, "nil", d1, Tail(src))
             ELSE ReadBytesLoop(Tail(src), Lsh64(d1, 7), n + 1, IF n = 0 THEN b ELSE b0)

RECURSIVE ReadBytesLateLoop(_, _, _, _)
ReadBytesLateLoop(src, d, n, b0) ==
    IF src = <<>>
    THEN IF n > 0 THEN RdOut(n, "UnexpectedEOF", d, src) ELSE RdOut(n, "EOF", d, src)
    ELSE LET b  == Head(src)
             d1 == Or7(d, b % 128)
         IN  IF n = MaxByteSize /\ b >= 128
                 THEN RdOut(MaxByteSize, "Overflow64", d, Tail(src))
             ELSE IF n = MaxByteSize /\ b0 # 129
                 THEN RdOut(MaxByteSize, "Overflow64", d, Tail(src))
             ELSE IF b < 128 THEN RdOut(n + 1, "nil", d1, Tail(src))
             ELSE ReadBytesLateLoop(Tail(src), Lsh64(d1, 7), n + 1, IF n = 0 THEN b ELSE b0)

\* ReadBytes with Read's test n == MaxByteSize, one byte late for its own count
ReadBytesLate(src, d0) == ReadBytesLateLoop(src, d0, 0, 0)

ReadBytes(src, d0) == ReadBytesLoop(src, d0, 0, 0)

----------------------------------------------------------------------------
(* Inputs of the streams *)

\* the least and the greatest value of every encoded length, and the test table
WriterValues ==
    {ValueOf(len, p) : len \in {l \in 0..WordBits : l % 7 \in {0, 1}}, p \in {"zeros", "ones"}}
        \cup TestNums

\* those of 1, 2, 9 and 10 bytes, and the test table
StreamValues == {v \in WriterValues : BitLen(v) <= 14 \/ BitLen(v) >= 56}

FirstBytes == {1, 128, 129, 131, 255}
MidBytes == {128, 255}
LastBytes == {0, 127, 128, 255}

\* a raw source: a first byte, k equal middle bytes, a last byte
RawSource(f, m, k, t) == <<f>> \o [i \in 1..k |-> m] \o <<t>>

Sources ==
    {RawSource(f, m, k, t) : f \in FirstBytes, m \in MidBytes, k \in 0..MaxMid, t \in LastBytes}
        \cup {<<>>} \cup {<<b>> : b \in FirstBytes}

----------------------------------------------------------------------------
(* The streams as state machines *)

\* n, err := Write(bb, x)
DoWrite(v, plan, short) ==
    \E w \in {Write(stream, v, plan, short)} :
        /\ stream' = w.stream
        /\ ret' = [NoRet EXCEPT !.op = "Write", !.n = w.n, !.err = w.err, !.val = v,
                                !.before = stream, !.sinkErrs = w.sinkErrs]
        /\ records' = Append(records, [val |-> v, n |-> w.n])
        /\ UNCHANGED <<data, reads, codecVars>>

\* n, err := WriteBytes(bb, x)
DoWriteBytes(v, plan) ==
    \E w \in {WriteBytes(stream, v, plan)} :
        /\ stream' = w.stream
        /\ ret' = [NoRet EXCEPT !.op = "WriteBytes", !.n = w.n, !.err = w.err, !.val = v,
                                !.before = stream, !.sinkErrs = w.sinkErrs]
        /\ records' = Append(records, [val |-> v, n |-> w.n])
        /\ UNCHANGED <<data, reads, codecVars>>

\* Write to a bytes.Buffer, which raises no error
CallWrite ==
    /\ Len(records) < MaxRecords
    /\ \E v \in StreamValues : DoWrite(v, NoFail, 0)

CallWriteBytes ==
    /\ Len(records) < MaxRecords
    /\ \E v \in StreamValues : DoWriteBytes(v, NoFail)

\* the record the next read call is to return, if one is left
Expected == IF reads < Len(records) THEN <<records[reads + 1]>> ELSE <<>>

\* n, err := Read(bb, &r), the out-variable zeroed first (r := uint64(0)) or
\* left as the previous call set it
CallRead ==
    /\ ret.err # "EOF"
    /\ \E d0 \in {<<>>, data} : \E r \in {Read(stream, d0)} :
          /\ stream' = r.rest
          /\ data' = r.data
          /\ ret' = [NoRet EXCEPT !.op = "Read", !.n = r.n, !.err = r.err, !.val = r.data,
                                  !.d0 = d0, !.before = stream, !.exp = Expected]
    /\ reads' = IF reads < Len(records) THEN reads + 1 ELSE reads
    /\ UNCHANGED <<records, codecVars>>

CallReadBytes ==
    /\ ret.err # "EOF"
    /\ \E d0 \in {<<>>, data} : \E r \in {ReadBytes(stream, d0)} :
          /\ stream' = r.rest
          /\ data' = r.data
          /\ ret' = [NoRet EXCEPT !.op = "ReadBytes", !.n = r.n, !.err = r.err, !.val = r.data,
                                  !.d0 = d0, !.before = stream, !.exp = Expected]
    /\ reads' = IF reads < Len(records) THEN reads + 1 ELSE reads
    /\ UNCHANGED <<records, codecVars>>

\* records written to a stream and read back from it
InitStream == CodecIdle /\ StreamIdle

NextStream == CallWrite \/ CallWriteBytes \/ CallRead \/ CallReadBytes

SpecStream == InitStream /\ [][NextStream]_vars

\* a source of arbitrary bytes, read call after call
InitReader ==
    /\ CodecIdle
    /\ stream \in Sources
    /\ data = <<>>
    /\ ret = NoRet
    /\ records = <<>>
    /\ reads = 0

NextReader == CallRead \/ CallReadBytes

SpecReader == InitReader /\ [][NextReader]_vars

\* one writer call on a sink that may raise errors
SinkPlans == {[from |-> f, to |-> t] : f \in 1..MaxByteSize, t \in 0..MaxByteSize}

WriteToSink ==
    /\ ret.op = "none"
    /\ \E v \in WriterValues, plan \in SinkPlans, short \in 0..1 : DoWrite(v, plan, short)

WriteBytesToSink ==
    /\ ret.op = "none"
    /\ \E v \in WriterValues, plan \in SinkPlans : DoWriteBytes(v, plan)

InitWriter == CodecIdle /\ StreamIdle

NextWriter == WriteToSink \/ WriteBytesToSink

SpecWriter == InitWriter /\ [][NextWriter]_vars

----------------------------------------------------------------------------
(* Claims about the codec, checked under SpecCodec *)

\* the number of bytes of the canonical encoding of v
CanonicalLen(v) == IF v = <<>> THEN 1 ELSE ((Len(v) - 1) \div 7) + 1

\* the encoding call returned normally
Encoded(op) == enc.op = op /\ ~enc.panic

\* bytes 1..n-1 carry the continuation flag and byte n does not
WellFlagged(b, n) ==
    /\ \A i \in 1..(n - 1) : b[i] >= 128
    /\ b[n] < 128

\* the 7-bit groups of b[1..n], most significant first, are the groups of v
GroupsOf(b, n, v) ==
    \A j \in 0..(n - 1) : b[n - j] % 128 = BitsValue(v, 7 * j + 1, 7 * j + 7)

\* C1: round trip of the fixed-buffer codec: with a buffer of at least 10 bytes
\* Encode(buf, x) returns some n, and Decode(buf[0..n-1]) then returns (x, n).
C1_RoundTrip ==
    (enc.op = "Encode" /\ Len(buf0) >= MaxByteSize) =>
        /\ ~enc.panic
        /\ dec.op = "Decode" => (~dec.panic /\ dec.val = x /\ dec.n = enc.n)

C1_Witness ==
    /\ enc.op = "Encode" /\ dec.op = "Decode"
    /\ Len(buf0) >= MaxByteSize
    /\ BitLen(x) = WordBits
    /\ dec.val = x

\* C2: Encode writes the canonical encoding: n is 1 with buf[0] = 0x00 for x = 0
\* and floor((bitlength(x)-1)/7)+1 for x > 0, so 1 <= n <= 10; all bytes but the
\* last carry the continuation flag, the last does not; the groups appear most
\* significant first and the first one is non-zero when x > 0.
C2_Canonical ==
    Encoded("Encode") =>
        /\ 1 <= enc.n /\ enc.n <= MaxByteSize
        /\ enc.n = CanonicalLen(x)
        /\ x = <<>> => buf[1] = 0
        /\ x # <<>> => (7 * (enc.n - 1) < Len(x) /\ Len(x) <= 7 * enc.n
                        /\ buf[1] % 128 # 0)
        /\ WellFlagged(buf, enc.n)
        /\ GroupsOf(buf, enc.n, x)

C2_Witness ==
    /\ Encoded("Encode")
    /\ enc.n = MaxByteSize
    /\ buf[1] = 129

\* C8: BufferTooSmall: when the buffer is shorter than the canonical encoding of
\* x, Encode panics and has modified no byte of the buffer.
C8_BufferTooSmall ==
    (enc.op = "Encode" /\ Len(buf0) < CanonicalLen(x)) =>
        (enc.panic /\ buf = buf0)

C8_Witness ==
    /\ enc.op = "Encode" /\ enc.panic
    /\ Len(buf0) >= 1
    /\ Len(buf0) = CanonicalLen(x) - 1

\* C9: on the 64-bit range the arbitrary-precision codec agrees with the
\* fixed-width one: encodeBig writes the bytes and returns the count Encode
\* does, and decodeBig of those bytes returns what Decode returns, (x, n).
C9_BigAgrees ==
    (Encoded("encodeBig") /\ BitLen(x) <= WordBits) =>
        LET e == Encode(buf0, x)
            bytes == SubSeq(buf, 1, enc.n)
        IN  /\ ~e.panic
            /\ enc.n = e.n
            /\ buf = e.buf
            /\ dec.op = "decodeBig" =>
                  /\ ~dec.panic
                  /\ dec.val = Decode(bytes).val /\ dec.n = Decode(bytes).n
                  /\ dec.val = x /\ dec.n = enc.n

C9_Witness ==
    /\ Encoded("encodeBig") /\ dec.op = "decodeBig"
    /\ BitLen(x) = WordBits
    /\ dec.val = x /\ dec.n = MaxByteSize

\* C10: arbitrary-precision round trip: for x of any bit length and a buffer of
\* at least k = floor((bitlength(x)-1)/7)+1 bytes, encodeBig returns k and writes
\* k bytes of which only the last has the continuation flag clear, and decodeBig
\* of those bytes returns (x, k).
C10_BigRoundTrip ==
    (enc.op = "encodeBig" /\ Len(buf0) >= CanonicalLen(x)) =>
        /\ ~enc.panic
        /\ enc.n = CanonicalLen(x)
        /\ WellFlagged(buf, enc.n)
        /\ dec.op = "decodeBig" => (~dec.panic /\ dec.val = x /\ dec.n = enc.n)

C10_Witness ==
    /\ Encoded("encodeBig") /\ dec.op = "decodeBig"
    /\ enc.n >= 16
    /\ dec.val = x /\ dec.n = enc.n

----------------------------------------------------------------------------
(* Claims about the streams *)

IsRead == ret.op \in {"Read", "ReadBytes"}
IsWrite == ret.op \in {"Write", "WriteBytes"}

\* the bytes the last read call took from the source
Taken == SubSeq(ret.before, 1, Len(ret.before) - Len(stream))

\* the last read call took a prefix of the source and left the rest in place
TookPrefix == ret.before = Taken \o stream

\* the first k bytes of b all carry the continuation flag
AllFlagged(b, k) == \A i \in 1..k : b[i] >= 128

RECURSIVE ExactFold(_, _)
\* acc = acc * 128 + group over the bytes of b, seeded at acc, with no word width
ExactFold(b, acc) ==
    IF b = <<>> THEN acc
    ELSE ExactFold(Tail(b), Or7(Lsh(acc, 7), Head(b) % 128))

\* C3 (under SpecStream): records written with Write or WriteBytes are read back
\* in order by Read or ReadBytes into a zeroed out-value, with no error, each call
\* taking exactly the bytes of one record (the count the writer returned); a call
\* with no record left returns EndOfInput and takes nothing.
C3_StreamRoundTrip ==
    /\ IsWrite => ret.err = "nil"
    /\ (IsRead /\ ret.d0 = <<>>) =>
          /\ TookPrefix
          /\ IF ret.exp # <<>>
             THEN /\ ret.err = "nil"
                  /\ ret.val = ret.exp[1].val
                  /\ ret.n = ret.exp[1].n
                  /\ Len(Taken) = ret.n
             ELSE /\ ret.err = "EOF"
                  /\ ret.n = 0
                  /\ Taken = <<>>

C3_Witness ==
    /\ IsRead /\ ret.d0 = <<>>
    /\ reads = MaxRecords
    /\ ret.err = "nil" /\ ret.n = MaxByteSize
    /\ Len(ret.before) = MaxByteSize
    /\ ret.exp # <<>>
    /\ ret.val = ret.exp[1].val

\* C4 (under SpecReader): a source exhausted before any byte was taken gives
\* EndOfInput with bytesConsumed = 0; a source exhausted after k bytes, 1 <= k <= 9,
\* all with the continuation flag, gives UnexpectedEndOfInput with
\* bytesConsumed = k; EndOfInput is never returned once a byte was taken.
C4_TruncationVsAbsence ==
    IsRead =>
        /\ ret.before = <<>> => (ret.err = "EOF" /\ ret.n = 0)
        /\ (/\ ret.before # <<>>
            /\ Len(ret.before) <= MaxByteSize - 1
            /\ AllFlagged(ret.before, Len(ret.before)))
              => (/\ ret.err = "UnexpectedEOF"
                  /\ ret.n = Len(ret.before)
                  /\ Taken = ret.before)
        /\ ret.err = "EOF" => (ret.n = 0 /\ Taken = <<>>)

C4_Witness ==
    /\ IsRead
    /\ ret.err = "UnexpectedEOF"
    /\ ret.n = MaxByteSize - 1
    /\ stream = <<>>

\* C5 (under SpecReader): a read call never takes more than MaxByteSize = 10
\* bytes; when a 10th byte is read and it has the continuation flag set, or the
\* first byte of the call was not 0x81, the call fails with Overflow64 and
\* bytesConsumed = 10.
C5_Ceiling ==
    IsRead =>
        /\ TookPrefix
        /\ Len(Taken) <= MaxByteSize
        /\ ret.n <= MaxByteSize
        /\ (/\ Len(ret.before) >= MaxByteSize
            /\ AllFlagged(ret.before, MaxByteSize - 1)
            /\ (ret.before[MaxByteSize] >= 128 \/ ret.before[1] # 129))
              => (/\ ret.err = "Overflow64"
                  /\ ret.n = MaxByteSize
                  /\ Len(Taken) = MaxByteSize)

C5_Witness ==
    /\ IsRead
    /\ ret.err = "Overflow64"
    /\ ret.before[1] = 131
    /\ ret.before[MaxByteSize] < 128

\* C6 (under SpecReader): a read call that returns no error on a zeroed
\* out-value has stored the exact fold acc = acc*128 + group of the bytes it
\* took, and that fold is below 2^64.
C6_NoSilentWrap ==
    (IsRead /\ ret.err = "nil" /\ ret.d0 = <<>>) =>
        /\ TookPrefix
        /\ ret.val = ExactFold(Taken, <<>>)
        /\ BitLen(ExactFold(Taken, <<>>)) <= WordBits
        /\ data = ret.val

C6_Witness ==
    /\ IsRead /\ ret.err = "nil" /\ ret.d0 = <<>>
    /\ ret.n = MaxByteSize
    /\ BitLen(ret.val) = WordBits

\* C7 (under SpecWriter): when the sink raises an error on any write a writer
\* call performs, the call returns that error; a writer call returns a nil
\* error only if every sink write it performed raised none.
C7_SinkErrorPropagated ==
    IsWrite => (ret.sinkErrs > 0 => ret.err = "sink")

\* the read call took a whole encoding of exactly k bytes: k - 1 flagged bytes
\* and a byte with the flag clear
TookEncoding(k) ==
    /\ Len(Taken) = k
    /\ AllFlagged(Taken, k - 1)
    /\ Taken[k] < 128

\* C11 (under SpecReader): Overflow64 denotes a value wider than 64 bits: when a
\* read call fails with Overflow64 on 10 bytes whose 10th has the continuation
\* flag clear, the exact fold of those bytes is >= 2^64; a 10-byte sequence
\* whose fold fits in 64 bits is not rejected with Overflow64.
C11_OverflowIsWide ==
    (IsRead /\ ret.err = "Overflow64" /\ TookPrefix /\ TookEncoding(MaxByteSize)) =>
        BitLen(ExactFold(Taken, <<>>)) > WordBits

\* the source of the last read call starts with an encoding of exactly k bytes
\* whose first byte is 0x80
LedByZeroGroup(k) ==
    /\ Len(ret.before) >= k
    /\ ret.before[1] = 128
    /\ AllFlagged(ret.before, k - 1)
    /\ ret.before[k] < 128

\* C12 as stated (under SpecReader): the readers succeed only on canonical
\* encodings: they never succeed on a multi-byte sequence whose first byte is
\* 0x80, for any length from 2 to 10 bytes.
C12_ValidatesCanonical ==
    (IsRead /\ ret.err = "nil" /\ ret.n >= 2) => ret.before[1] # 128

\* C12 as amended (under SpecReader): the readers refuse a first byte of 0x80
\* only in a 10-byte sequence (a successful 10-byte read has first byte 0x81); a
\* sequence of 2 to 9 bytes whose first byte is 0x80 is accepted, all its bytes
\* taken and, on a zeroed out-value, its fold stored.
C12_CanonicalOnlyAtTen ==
    IsRead =>
        /\ (ret.err = "nil" /\ ret.n = MaxByteSize) => ret.before[1] = 129
        /\ \A k \in 2..(MaxByteSize - 1) :
              LedByZeroGroup(k) =>
                  /\ ret.err = "nil"
                  /\ ret.n = k
                  /\ Len(Taken) = k
                  /\ ret.d0 = <<>> => ret.val = ExactFold(SubSeq(ret.before, 1, k), <<>>)

C12_Witness ==
    /\ IsRead /\ ret.err = "nil" /\ ret.d0 = <<>>
    /\ LedByZeroGroup(MaxByteSize - 1)
    /\ ret.n = MaxByteSize - 1
    /\ ret.val # <<>>

\* what the last read call would have returned had the out-value held 0
OnZeroed ==
    IF ret.op = "Read" THEN Read(ret.before, <<>>) ELSE ReadBytes(ret.before, <<>>)

\* C13 (under SpecStream): the result of a read call depends only on the bytes
\* it takes: whatever the out-value held before, the call returns the same
\* bytesConsumed and error and, on success, stores the same value; so a record
\* read into a variable that still holds the previous record's value leaves
\* the new record's value in it.
C13_OutValueIrrelevant ==
    IsRead =>
        /\ ret.n = OnZeroed.n
        /\ ret.err = OnZeroed.err
        /\ ret.err = "nil" => (ret.val = OnZeroed.data /\ data = OnZeroed.data)
        /\ (ret.err = "nil" /\ ret.exp # <<>>) => data = ret.exp[1].val

====
